---- MODULE Spec2Model ----
(***************************************************************************)
(* State-machine model of the value-substitution engine of                 *)
(* multi_anonymizer: DataAnonymizer (src/anonymizer.py) with its           *)
(* consistency cache faker_cache, the rule dispatch of anonymize_value,    *)
(* and the run of main()/process_config around it.                         *)
(*                                                                         *)
(* Strings are sequences of symbols (a symbol is a character or an         *)
(* indivisible piece of text such as "unique/" or "Alice").  A Python      *)
(* value is a record [kind, s, n]: None, a str or an int.                  *)
(***************************************************************************)
EXTENDS Integers, Sequences, FiniteSets, TLC

VARIABLES
    faker_cache,   \* self.faker_cache: bucket name -> insertion-ordered dict
    cache_file,    \* self.cache_file is set (TRUE) or None (FALSE)
    disk,          \* the content of the cache file on disk
    unique_seen,   \* the values self.fake.unique has already issued, per method
    config_idx,    \* main: index of the entry being (or next to be) processed
    pc,            \* "main", "config" (inside process_config), "exit0", "exit1"
    last,          \* the anonymize_value call just made, if the last step was one
    returned,      \* history: <<bucket, original value, substitute>> returned by generator rules
    compute_count, \* history: generator invocations per <<bucket, original value>>
    ncalls,        \* number of anonymize_value calls made so far
    nsaves,        \* number of times this engine's _save_cache opened the cache file
    saved,         \* history: faker_cache as it was at the last successful save
    columns_to_anonymize, \* anonymize_db_with_id_column: the "columns" mapping, in order
    rows,          \* the rows fetched by the adapter's query
    row_idx,       \* position of the row loop (0: no table is being processed)
    col_pos,       \* position of the column loop within the row
    anonymized_values, \* the substitutes computed so far for the current row
    table,         \* the table as the open session sees it
    committed,     \* the table as committed to the database
    doc_kind,      \* the adapter at work on a document: "xml", "json" or "none"
    doc_rule,      \* the rule of the path being processed
    originals,     \* the values at the matched locations as they were read
    doc,           \* the values at the matched locations as they are now
    doc_pos,       \* position of the loop over the matched locations
    count,         \* the adapter's counter
    ARGS_input,    \* multi_anonymizer.py: the --input arguments, in order
    input_idx,     \* position of main's loop over the inputs, then over the sources
    source_is_database, \* main's variable of that name
    source_selector_map, \* the sources with their selector, in insertion order
    processed,     \* history: <<source, adapter that processed it>>
    adapter,       \* the adapter at work on source_selector_map[input_idx]
    FAKER_DICTS,   \* multi_anonymizer.py: data type -> dict of substitutes
    FAKE_DICT      \* csv_anonymizer.py: the dict of substitutes of the run

engine_vars == <<faker_cache, cache_file, disk, unique_seen, config_idx, pc,
                 last, returned, compute_count, ncalls, nsaves, saved>>

db_vars == <<columns_to_anonymize, rows, row_idx, col_pos, anonymized_values,
             table, committed>>

doc_vars == <<doc_kind, doc_rule, originals, doc, doc_pos, count>>

legacy_vars == <<ARGS_input, input_idx, source_is_database, source_selector_map,
                 processed, adapter, FAKER_DICTS, FAKE_DICT>>

aux_vars == <<doc_vars, legacy_vars>>

vars == <<engine_vars, db_vars, aux_vars>>

----------------------------------------------------------------------------
(* Bounds of the model *)

MaxCalls == 2      \* anonymize_value calls in one run
MaxConfigs == 2    \* configuration entries in one run
MaxSpread == 1     \* random_int(min, max) draws min .. min+MaxSpread-1, and max

(* Program constants *)

DefaultMin == 0
DefaultMax == 100

----------------------------------------------------------------------------
(* Python values *)

NoneV == [kind |-> "null", s |-> <<>>, n |-> 0]
StrV(s) == [kind |-> "str", s |-> s, n |-> 0]
IntV(n) == [kind |-> "int", s |-> <<>>, n |-> n]

Digits == <<"0", "1", "2", "3", "4", "5", "6", "7", "8", "9">>

RECURSIVE Decimal(_)
Decimal(n) ==
    IF n < 10 THEN <<Digits[n + 1]>>
    ELSE Decimal(n \div 10) \o <<Digits[(n % 10) + 1]>>

\* Python str(value)
ToStr(v) ==
    CASE v.kind = "null" -> <<"None">>
      [] v.kind = "str" -> v.s
      [] v.kind = "int" -> Decimal(v.n)

\* s.strip() == ""
IsBlank(s) == \A i \in 1..Len(s) : s[i] = " "

\* whether needle occurs in hay (Python: needle in hay)
Contains(hay, needle) ==
    \E i \in 0..(Len(hay) - Len(needle)) :
        \A j \in 1..Len(needle) : hay[i + j] = needle[j]

(* Insertion-ordered Python dict as a sequence of <<key, value>> pairs *)

EmptyDict == <<>>
HasKey(d, k) == \E i \in 1..Len(d) : d[i][1] = k
GetItem(d, k) == d[CHOOSE i \in 1..Len(d) : d[i][1] = k][2]
\* mutant: the assignment leaves the new entry alone in the dict
SetItem_alone(d, k, v) == << <<k, v>> >>
SetItem(d, k, v) ==
    IF HasKey(d, k)
    THEN [i \in 1..Len(d) |-> IF d[i][1] = k THEN <<k, v>> ELSE d[i]]
    ELSE Append(d, <<k, v>>)
Keys(d) == {d[i][1] : i \in 1..Len(d)}
DictValues(d) == {d[i][2] : i \in 1..Len(d)}

\* a mapping (function) extended or overwritten at one key
MapSet(f, k, v) == [x \in DOMAIN f \cup {k} |-> IF x = k THEN v ELSE f[x]]

NoParams == [x \in {} |-> 0]
\* kwargs.get(key, default)
KwGet(kwargs, key, default) == IF key \in DOMAIN kwargs THEN kwargs[key] ELSE default

----------------------------------------------------------------------------
(* The synthetic-data provider (Faker) *)

UNIQUE == "unique/"

\* the public callables of self.fake; "number" is not one of them
faker_methods == {<<"first_name">>}

\* what a Faker method may return when called with **kwargs;
\* first_name accepts no keyword argument (TypeError otherwise)
FakerOutcomes(faker_type) ==
    IF faker_type = <<"first_name">>
    THEN {StrV(<<"Bob">>), StrV(<<"Eve">>)}
    ELSE {}

\* mutant: the upper end is exclusive of max and one past it is possible
random_int_off_by_one(min_val, max_val) ==
    {n \in min_val..(max_val + 1) : n - min_val < MaxSpread \/ n = max_val + 1}

\* self.fake.random_int(min, max): an integer of min..max (ValueError if empty)
random_int(min_val, max_val) ==
    {n \in min_val..max_val : n - min_val < MaxSpread \/ n = max_val}

----------------------------------------------------------------------------
(* The engine: DataAnonymizer *)

\* what one call did: the value returned (ret) or the exception raised (exc),
\* the cache and unique-proxy state it leaves, whether the generator was
\* invoked (computed), the branch taken (path) and the cache bucket used
Outcome(ret, exc, cache, seen, computed, path, bucket) ==
    [ret |-> ret, exc |-> exc, cache |-> cache, seen |-> seen,
     computed |-> computed, path |-> path, bucket |-> bucket]

\* mutant: the unique/ prefix is not removed before the lookup
is_faker_type_no_strip(faker_type) ==
    [is_faker_type |-> faker_type \in faker_methods,
     faker_type |-> faker_type,
     use_unique |-> Len(faker_type) >= 1 /\ faker_type[1] = UNIQUE]

is_faker_type(faker_type) ==
    LET use_unique == Len(faker_type) >= 1 /\ faker_type[1] = UNIQUE
        name == IF use_unique THEN Tail(faker_type) ELSE faker_type
    IN  [is_faker_type |-> name \in faker_methods,
         faker_type |-> name,
         use_unique |-> use_unique]

\* value_method(**kwargs) on self.fake or on self.fake.unique
get_faker_value(seen, faker_type, use_unique, kwargs) ==
    IF DOMAIN kwargs # {}
    THEN {[exc |-> "TypeError", value |-> NoneV, seen |-> seen]}
    ELSE IF use_unique
    THEN LET fresh == FakerOutcomes(faker_type) \ seen[faker_type]
         IN  IF fresh = {}
             THEN {[exc |-> "UniquenessException", value |-> NoneV, seen |-> seen]}
             ELSE {[exc |-> "none", value |-> v,
                    seen |-> [seen EXCEPT ![faker_type] = @ \cup {v}]] : v \in fresh}
    ELSE {[exc |-> "none", value |-> v, seen |-> seen] : v \in FakerOutcomes(faker_type)}

\* mutant: the emptiness test without strip()
is_blank_string_no_strip(original_value) ==
    original_value.kind = "str" /\ original_value.s = <<>>

\* isinstance(original_value, str) and original_value.strip() == ""
is_blank_string(original_value) ==
    original_value.kind = "str" /\ IsBlank(original_value.s)

\* mutant: one global bucket instead of one per faker type
cache_bucket_global(faker_type) == <<"all">>

\* the key of the first level of faker_cache used for a (stripped) faker type
cache_bucket(faker_type) == faker_type

\* mutant: the lookup is skipped
cache_hit_never(cache, bucket, original_value) == FALSE

\* mutant: the lookup only finds keys that are strings
cache_hit_str_only(cache, bucket, original_value) ==
    /\ original_value.kind = "str"
    /\ bucket \in DOMAIN cache
    /\ HasKey(cache[bucket], original_value)

\* original_value in self.faker_cache[faker_type]
cache_hit(cache, bucket, original_value) ==
    bucket \in DOMAIN cache /\ HasKey(cache[bucket], original_value)

\* mutant: the marker does not name the type
invalid_marker_anonymous(faker_type) == <<"INVALID_FAKER_METHOD(", ")">>

invalid_marker(faker_type) == <<"INVALID_FAKER_METHOD(">> \o faker_type \o <<")">>

\* the values the generator branch may compute on a cache miss
compute_value(seen, t, kwargs) ==
    IF t.faker_type = <<"number">>
    THEN LET drawn == random_int(KwGet(kwargs, "min", DefaultMin),
                                 KwGet(kwargs, "max", DefaultMax))
         IN  IF drawn = {}
             THEN {[exc |-> "ValueError", value |-> NoneV, seen |-> seen, computed |-> TRUE]}
             ELSE {[exc |-> "none", value |-> IntV(n), seen |-> seen, computed |-> TRUE]
                      : n \in drawn}
    ELSE IF t.is_faker_type
    THEN {[exc |-> g.exc, value |-> g.value, seen |-> g.seen, computed |-> TRUE]
             : g \in get_faker_value(seen, t.faker_type, t.use_unique, kwargs)}
    ELSE {[exc |-> "none", value |-> StrV(invalid_marker(t.faker_type)),
           seen |-> seen, computed |-> FALSE]}

\* A bucket loaded from a cache file need not be a mapping: the JSON string
\* "foo" where a mapping of values to substitutes belongs is held as the one
\* member NOT_A_MAPPING: "foo"
NOT_A_MAPPING == [kind |-> "notdict", s |-> <<>>, n |-> 0]
FlatBucket(text) == << <<NOT_A_MAPPING, StrV(text)>> >>

is_mapping(d) == ~HasKey(d, NOT_A_MAPPING)

\* lookup and store in a bucket that is a str: `x in "foo"` is a substring
\* test that needs a str on the left, "foo"[x] and "foo"[x] = v raise TypeError
flat_bucket_access(cache, seen, original_value, t, bucket, kwargs) ==
    LET text == GetItem(cache[bucket], NOT_A_MAPPING).s
        raises == Outcome(NoneV, "TypeError", cache, seen, FALSE, "faker", bucket)
    IN  IF original_value.kind # "str" THEN {raises}
        ELSE IF Contains(text, original_value.s) THEN {raises}
        ELSE {Outcome(NoneV, IF c.exc = "none" THEN "TypeError" ELSE c.exc,
                      cache, c.seen, c.computed, "faker", bucket)
                 : c \in compute_value(seen, t, kwargs)}

get_consistent_faker_value(cache, seen, original_value, faker_type, kwargs) ==
    IF original_value = NoneV
    THEN {Outcome(NoneV, "none", cache, seen, FALSE, "sentinel", <<>>)}
    ELSE IF is_blank_string(original_value)
    THEN {Outcome(StrV(<<>>), "none", cache, seen, FALSE, "sentinel", <<>>)}
    ELSE
    LET t == is_faker_type(faker_type)
        bucket == cache_bucket(t.faker_type)
        cache1 == IF bucket \notin DOMAIN cache
                  THEN MapSet(cache, bucket, EmptyDict) ELSE cache
    IN  IF ~is_mapping(cache1[bucket])
        THEN flat_bucket_access(cache1, seen, original_value, t, bucket, kwargs)
        ELSE IF cache_hit(cache1, bucket, original_value)
        THEN {Outcome(GetItem(cache1[bucket], original_value), "none", cache1, seen,
                      FALSE, "faker", bucket)}
        ELSE {IF c.exc = "none"
              THEN Outcome(c.value, "none",
                           [cache1 EXCEPT ![bucket] = SetItem(@, original_value, c.value)],
                           c.seen, c.computed, "faker", bucket)
              ELSE Outcome(NoneV, c.exc, cache1, c.seen, c.computed, "faker", bucket)
                 : c \in compute_value(seen, t, kwargs)}

(* Jinja2 templates: a template is a sequence of literal symbols and
   expressions; ROW_FIRST prints row['first'], OPEN_EXPR is an expression
   that is never closed (a TemplateSyntaxError), ROW_FIRST_LOWER calls
   row['first'].lower(), which only a str has (an UndefinedError otherwise) *)

ROW_FIRST == "{{row['first']}}"
OPEN_EXPR == "{{"
ROW_FIRST_LOWER == "{{row['first'].lower()}}"

\* str.lower() of a symbol
Lower(sym) == IF sym = "Bob" THEN "bob" ELSE IF sym = "Eve" THEN "eve" ELSE sym

\* template.render(...) raises nothing: every method an expression calls exists
template_renders(template, context) ==
    \A i \in 1..Len(template) :
        template[i] = ROW_FIRST_LOWER =>
            ("first" \in DOMAIN context /\ context["first"].kind = "str")

\* Template(faker_or_template) parses
template_parses(template) == \A i \in 1..Len(template) : template[i] # OPEN_EXPR

\* template.render(row=context, ...): an undefined row field prints as "",
\* any other value as str(value)
RECURSIVE render(_, _)
render(template, context) ==
    IF template = <<>> THEN <<>>
    ELSE LET piece == IF template[1] = ROW_FIRST
                      THEN (IF "first" \in DOMAIN context
                            THEN ToStr(context["first"]) ELSE <<>>)
                      ELSE IF template[1] = ROW_FIRST_LOWER
                      THEN [i \in 1..Len(context["first"].s) |->
                               Lower(context["first"].s[i])]
                      ELSE <<template[1]>>
         IN  piece \o render(Tail(template), context)

\* mutant: the rendered value is memoised per original value
render_template_cached(cache, seen, original_value, faker_or_template, context) ==
    LET bucket == <<"template">>
        cache1 == IF bucket \notin DOMAIN cache
                  THEN MapSet(cache, bucket, EmptyDict) ELSE cache
    IN  IF HasKey(cache1[bucket], original_value)
        THEN {Outcome(GetItem(cache1[bucket], original_value), "none", cache1, seen,
                      FALSE, "template", <<>>)}
        ELSE {Outcome(StrV(render(faker_or_template, context)), "none",
                      [cache1 EXCEPT ![bucket] =
                          SetItem(@, original_value,
                                  StrV(render(faker_or_template, context)))],
                      seen, FALSE, "template", <<>>)}

\* mutant: the rendered text is returned as it is
render_template_keeps_none(cache, seen, original_value, faker_or_template, context) ==
    IF ~template_parses(faker_or_template)
    THEN {Outcome(NoneV, "TemplateSyntaxError", cache, seen, FALSE, "template", <<>>)}
    ELSE IF ~template_renders(faker_or_template, context)
    THEN {Outcome(NoneV, "UndefinedError", cache, seen, FALSE, "template", <<>>)}
    ELSE {Outcome(StrV(render(faker_or_template, context)),
                  "none", cache, seen, FALSE, "template", <<>>)}

\* the template branch of anonymize_value
render_template(cache, seen, original_value, faker_or_template, context) ==
    IF ~template_parses(faker_or_template)
    THEN {Outcome(NoneV, "TemplateSyntaxError", cache, seen, FALSE, "template", <<>>)}
    ELSE IF ~template_renders(faker_or_template, context)
    THEN {Outcome(NoneV, "UndefinedError", cache, seen, FALSE, "template", <<>>)}
    ELSE LET anonymized_value == render(faker_or_template, context)
         IN  {Outcome(IF anonymized_value = <<"None">> THEN NoneV
                      ELSE StrV(anonymized_value),
                      "none", cache, seen, FALSE, "template", <<>>)}

(* Substitution rules: a dict with a "type" key and optional "params", or a
   bare string *)

DictRule(type, params) == [form |-> "dict", val |-> type, params |-> params]
StrRule(text) == [form |-> "str", val |-> text, params |-> NoParams]

\* whether a bare string rule is evaluated as a generator rule
is_generator_name(faker_or_template) == is_faker_type(faker_or_template).is_faker_type

anonymize_value(cache, seen, original_value, faker_or_template, context) ==
    IF faker_or_template.form = "dict"
    THEN get_consistent_faker_value(cache, seen, original_value,
                                    faker_or_template.val, faker_or_template.params)
    ELSE IF is_generator_name(faker_or_template.val)
    THEN get_consistent_faker_value(cache, seen, original_value,
                                    faker_or_template.val, NoParams)
    ELSE render_template(cache, seen, original_value, faker_or_template.val, context)

----------------------------------------------------------------------------
(* Cache persistence: the cache file holds JSON text, a mapping of bucket name
   to a list of "key": value members whose keys are all strings *)

DiskMissing == [state |-> "missing", data |-> NoParams]
DiskCorrupt == [state |-> "corrupt", data |-> NoParams]
DiskJson(data) == [state |-> "json", data |-> data]
\* well-formed JSON on which the entry count of _load_cache raises: the
\* document is not an object (a list, a string, a number) or one of its
\* members has no len() (a number, null)
DiskUnsized == [state |-> "unsized", data |-> NoParams]

\* json.dump: every key is written as a string, in insertion order
json_dump(cache) ==
    [b \in DOMAIN cache |->
        IF is_mapping(cache[b])
        THEN [i \in 1..Len(cache[b]) |->
                 <<StrV(ToStr(cache[b][i][1])), cache[b][i][2]>>]
        ELSE cache[b]]

RECURSIVE DictFromPairs(_)
DictFromPairs(pairs) ==
    IF pairs = <<>> THEN EmptyDict
    ELSE LET n == Len(pairs)
         IN  SetItem(DictFromPairs(SubSeq(pairs, 1, n - 1)), pairs[n][1], pairs[n][2])

\* json.load: a repeated key keeps its last value
json_load(data) == [b \in DOMAIN data |-> DictFromPairs(data[b])]

\* __init__ with _load_cache: the cache the engine starts with
load_cache(file_set, d) ==
    IF file_set /\ d.state = "json" THEN json_load(d.data) ELSE NoParams

\* what a call of _save_cache did: the file contents it leaves, whether it
\* tried to write (0 or 1 attempts), whether the write succeeded, and the
\* exception that leaves the method
SaveOutcome(d, attempts, ok, exc) ==
    [disk |-> d, attempts |-> attempts, ok |-> ok, exc |-> exc]

\* mutant: an I/O error leaves _save_cache
save_cache_raising(file_set, d, cache) ==
    IF file_set
    THEN {SaveOutcome(DiskJson(json_dump(cache)), 1, TRUE, "none"),
          SaveOutcome(d, 1, FALSE, "OSError")}
    ELSE {SaveOutcome(d, 0, FALSE, "none")}

\* _save_cache: without a cache file it does nothing; with one it writes the
\* cache, and an I/O error is caught and only reported
save_cache(file_set, d, cache) ==
    IF file_set
    THEN {SaveOutcome(DiskJson(json_dump(cache)), 1, TRUE, "none"),
          SaveOutcome(d, 1, FALSE, "none")}
    ELSE {SaveOutcome(d, 0, FALSE, "none")}

----------------------------------------------------------------------------
(* Inputs *)

STR42 == StrV(<<"4", "2">>)
INT42 == IntV(42)
BOB == StrV(<<"Bob">>)
FIRST_NAME == <<"first_name">>
NUMBER == <<"number">>
NOPE == <<"not_a_real_generator">>

\* original values the adapters hand to the engine
Sentinels == {NoneV, StrV(<<>>), StrV(<<" ", " ", " ">>)}
NonSentinels == {STR42, INT42}
Values == Sentinels \cup NonSentinels

GeneratorRules ==
    {DictRule(FIRST_NAME, NoParams),
     DictRule(FIRST_NAME, [min |-> 5]),
     DictRule(NUMBER, NoParams),
     DictRule(NUMBER, [min |-> 5, max |-> 5]),
     DictRule(NUMBER, [min |-> 7, max |-> 6]),
     DictRule(NOPE, NoParams),
     DictRule(<<UNIQUE>> \o NOPE, NoParams)}

BareRules ==
    {StrRule(FIRST_NAME),
     StrRule(<<UNIQUE>> \o FIRST_NAME),
     StrRule(NOPE),
     StrRule(<<ROW_FIRST, "@example.com">>),
     StrRule(<<ROW_FIRST>>),
     StrRule(<<OPEN_EXPR, "row">>)}

Rules == GeneratorRules \cup BareRules

\* row contexts; the default argument is the empty mapping
Contexts == {[first |-> BOB], [first |-> NoneV]}

\* only a template that prints a row field reads the context: the other rules
\* are tried with the default context
ContextsFor(rule) ==
    IF rule.form = "str" /\ ROW_FIRST \in {rule.val[i] : i \in 1..Len(rule.val)}
    THEN Contexts ELSE {NoParams}

\* a cache file written by an earlier run
SavedCache ==
    [b \in {FIRST_NAME, NUMBER} |->
        IF b = FIRST_NAME THEN << <<STR42, BOB>>, <<StrV(<<"7">>), StrV(<<"Eve">>)>> >>
        ELSE << <<STR42, IntV(100)>> >>]

DiskStates == {DiskMissing, DiskCorrupt, DiskJson(SavedCache)}

\* a cache file holding {"first_name": "foo"}
FlatCache == [b \in {FIRST_NAME} |-> FlatBucket(<<"f", "o", "o">>)]

\* cache files of any content: also JSON that is not a mapping of mappings
AnyDiskStates == DiskStates \cup {DiskUnsized, DiskJson(FlatCache)}

NoCall ==
    [value |-> NoneV, rule |-> StrRule(<<>>), context |-> NoParams, ret |-> NoneV,
     exc |-> "none", path |-> "none", computed |-> FALSE, bucket |-> <<>>]

----------------------------------------------------------------------------
(* main(): nothing between anonymize_value and main catches an exception, and
   main's handler reports it and exits with status 1 *)

\* mutant: the adapter skips a value whose rule raised
main_loop_skips_value(exc, resume) == resume

\* where the run continues after a step that ended with exc
main_loop(exc, resume) == IF exc = "none" THEN resume ELSE "exit1"

----------------------------------------------------------------------------
(* The run: main() constructs one engine and hands it every configuration
   entry in turn *)

\* the engine as constructed on one of the given cache files, or on none
EngineInitOn(files) ==
    /\ cache_file \in BOOLEAN
    /\ disk \in (IF cache_file THEN files ELSE {DiskMissing})
    /\ faker_cache = load_cache(cache_file, disk)
    /\ unique_seen = [m \in faker_methods |-> {}]
    /\ config_idx = 1
    /\ pc = "main"
    /\ last = NoCall
    /\ returned = {}
    /\ compute_count = NoParams
    /\ ncalls = 0
    /\ nsaves = 0
    /\ saved = NoParams

\* the cache file, if any, is absent, unreadable or was written by the tool
EngineInit == EngineInitOn(DiskStates)

\* no document is being processed
DocIdle ==
    /\ doc_kind = "none"
    /\ doc_rule = StrRule(<<>>)
    /\ originals = <<>>
    /\ doc = <<>>
    /\ doc_pos = 0
    /\ count = 0

\* the legacy tools are not running
LegacyIdle ==
    /\ ARGS_input = <<>>
    /\ input_idx = 0
    /\ source_is_database = FALSE
    /\ source_selector_map = <<>>
    /\ processed = <<>>
    /\ adapter = "none"
    /\ FAKER_DICTS = NoParams
    /\ FAKE_DICT = EmptyDict

\* no table is being processed
DbIdle ==
    /\ columns_to_anonymize = <<>>
    /\ rows = <<>>
    /\ row_idx = 0
    /\ col_pos = 0
    /\ anonymized_values = NoParams

\* a run whose configuration names files only: the database is empty
Init ==
    /\ EngineInit
    /\ DbIdle
    /\ DocIdle
    /\ LegacyIdle
    /\ table = <<>>
    /\ committed = <<>>

\* process_config is entered for an enabled entry (main takes the entries in
\* turn; how many there are and which are enabled is an input of the run)
StartConfig ==
    /\ pc = "main"
    /\ config_idx <= MaxConfigs
    /\ pc' = "config"
    /\ last' = NoCall
    /\ UNCHANGED <<faker_cache, cache_file, disk, unique_seen, config_idx,
                   returned, compute_count, ncalls, nsaves, saved>>
    /\ UNCHANGED db_vars
    /\ UNCHANGED aux_vars

\* process_config returns at once for a disabled entry, without saving
SkipConfig ==
    /\ pc = "main"
    /\ config_idx <= MaxConfigs
    /\ config_idx' = config_idx + 1
    /\ last' = NoCall
    /\ UNCHANGED <<faker_cache, cache_file, disk, unique_seen, pc,
                   returned, compute_count, ncalls, nsaves, saved>>
    /\ UNCHANGED db_vars
    /\ UNCHANGED aux_vars

\* an adapter calls anonymize_value for one value of the entry's data source;
\* an exception propagates to main, which exits with status 1
AnonymizeValue ==
    /\ pc = "config"
    /\ ncalls < MaxCalls
    /\ \E v \in Values, rule \in Rules :
         \E ctx \in ContextsFor(rule) :
         \E o \in anonymize_value(faker_cache, unique_seen, v, rule, ctx) :
            /\ faker_cache' = o.cache
            /\ unique_seen' = o.seen
            /\ last' = [value |-> v, rule |-> rule, context |-> ctx, ret |-> o.ret,
                        exc |-> o.exc, path |-> o.path, computed |-> o.computed,
                        bucket |-> o.bucket]
            /\ returned' = IF o.path = "faker" /\ o.exc = "none"
                           THEN returned \cup {<<o.bucket, v, o.ret>>}
                           ELSE returned
            /\ compute_count' =
                  IF o.computed
                  THEN MapSet(compute_count, <<o.bucket, v>>,
                              KwGet(compute_count, <<o.bucket, v>>, 0) + 1)
                  ELSE compute_count
            /\ pc' = main_loop(o.exc, "config")
    /\ ncalls' = ncalls + 1
    /\ UNCHANGED <<cache_file, disk, config_idx, nsaves, saved>>
    /\ UNCHANGED db_vars
    /\ UNCHANGED aux_vars

\* the end of process_config: the cache is saved and main takes the next entry
EndConfig ==
    /\ pc = "config"
    /\ \E s \in save_cache(cache_file, disk, faker_cache) :
          /\ disk' = s.disk
          /\ nsaves' = nsaves + s.attempts
          /\ saved' = IF s.ok THEN faker_cache ELSE saved
          /\ pc' = main_loop(s.exc, "main")
    /\ config_idx' = config_idx + 1
    /\ last' = NoCall
    /\ UNCHANGED <<faker_cache, cache_file, unique_seen,
                   returned, compute_count, ncalls>>
    /\ UNCHANGED db_vars
    /\ UNCHANGED aux_vars

\* main returns after the last entry
MainExit ==
    /\ pc = "main"
    /\ config_idx > 1
    /\ pc' = "exit0"
    /\ last' = NoCall
    /\ UNCHANGED <<faker_cache, cache_file, disk, unique_seen, config_idx,
                   returned, compute_count, ncalls, nsaves, saved>>
    /\ UNCHANGED db_vars
    /\ UNCHANGED aux_vars

Next ==
    \/ StartConfig
    \/ SkipConfig
    \/ AnonymizeValue
    \/ EndConfig
    \/ MainExit

Spec == Init /\ [][Next]_vars

----------------------------------------------------------------------------
(* A run on a cache file of any content *)

InitAnyFile ==
    /\ EngineInitOn(AnyDiskStates)
    /\ DbIdle
    /\ DocIdle
    /\ LegacyIdle
    /\ table = <<>>
    /\ committed = <<>>

SpecAnyFile == InitAnyFile /\ [][Next]_vars

----------------------------------------------------------------------------
(* A later run of the tool on the same cache file: main() constructs a fresh
   engine, which loads what the earlier run left on disk *)

Restart ==
    /\ pc \in {"exit0", "exit1"}
    /\ cache_file
    /\ faker_cache' = load_cache(cache_file, disk)
    /\ unique_seen' = [m \in faker_methods |-> {}]
    /\ config_idx' = 1
    /\ pc' = "main"
    /\ last' = NoCall
    /\ returned' = {}
    /\ compute_count' = NoParams
    /\ nsaves' = 0
    /\ UNCHANGED <<cache_file, disk, ncalls, saved>>
    /\ UNCHANGED db_vars
    /\ UNCHANGED aux_vars

NextRestart ==
    \/ Next
    \/ Restart

SpecRestart == Init /\ [][NextRestart]_vars

----------------------------------------------------------------------------
(* The SQL adapter for a table with id columns: anonymize_db_table hands the
   table to anonymize_db_with_id_column and commits when it returns *)

MaxRows == 2

EMAIL_TEMPLATE == StrRule(<<ROW_FIRST, "@example.com">>)

\* the "columns" mapping of a table entry, in the order of the configuration
ColumnConfigs ==
    {<< <<"first", StrRule(FIRST_NAME)>>, <<"email", EMAIL_TEMPLATE>> >>,
     << <<"email", EMAIL_TEMPLATE>>, <<"first", StrRule(FIRST_NAME)>> >>,
     << <<"first", StrRule(FIRST_NAME)>> >>,
     << <<"first", StrRule(<<OPEN_EXPR, "row">>)>> >>,
     << <<"first", StrRule(FIRST_NAME)>>,
        <<"email", StrRule(<<ROW_FIRST_LOWER>>)>> >>}

\* the tables of the database: the id column numbers the rows
Tables ==
    UNION {{[i \in 1..n |-> [id |-> IntV(i), first |-> f[i],
                             email |-> StrV(<<"x@y">>)]] :
             f \in [1..n -> {STR42, INT42, NoneV}]} : n \in 1..MaxRows}

\* mutant: the template context is the fetched row alone
merge_context_row_only(row_dict, anonymized) == row_dict

\* {**row_dict, **anonymized_values}
merge_context(row_dict, anonymized) ==
    [c \in DOMAIN row_dict \cup DOMAIN anonymized |->
        IF c \in DOMAIN anonymized THEN anonymized[c] ELSE row_dict[c]]

\* update(update_table).where(id == row id).values(**anonymized_values)
update_row(tbl, id, values) ==
    [i \in DOMAIN tbl |->
        IF tbl[i]["id"] = id
        THEN [c \in DOMAIN tbl[i] |->
                 IF c \in DOMAIN values THEN values[c] ELSE tbl[i][c]]
        ELSE tbl[i]]

\* a run whose configuration names tables of a database
InitSql ==
    /\ EngineInit
    /\ DbIdle
    /\ DocIdle
    /\ LegacyIdle
    /\ committed \in Tables
    /\ table = committed

\* process_config takes the next table of the entry's table list: the adapter
\* fetches the rows
StartTable ==
    /\ pc = "config"
    /\ ncalls < MaxCalls
    /\ columns_to_anonymize' \in ColumnConfigs
    /\ rows' = table
    /\ row_idx' = 1
    /\ col_pos' = 1
    /\ anonymized_values' = NoParams
    /\ pc' = "table"
    /\ last' = NoCall
    /\ UNCHANGED <<faker_cache, cache_file, disk, unique_seen, config_idx,
                   returned, compute_count, ncalls, nsaves, saved>>
    /\ UNCHANGED <<table, committed>>
    /\ UNCHANGED aux_vars

\* one turn of the column loop of the current row
SqlColumn ==
    /\ pc = "table"
    /\ row_idx <= Len(rows)
    /\ col_pos <= Len(columns_to_anonymize)
    /\ LET row_dict == rows[row_idx]
           col == columns_to_anonymize[col_pos][1]
           faker_or_template == columns_to_anonymize[col_pos][2]
           original_value == row_dict[col]
           context == merge_context(row_dict, anonymized_values)
       IN  \E o \in anonymize_value(faker_cache, unique_seen, original_value,
                                    faker_or_template, context) :
            /\ faker_cache' = o.cache
            /\ unique_seen' = o.seen
            /\ last' = [value |-> original_value, rule |-> faker_or_template,
                        context |-> context, ret |-> o.ret, exc |-> o.exc,
                        path |-> o.path, computed |-> o.computed,
                        bucket |-> o.bucket]
            /\ returned' = IF o.path = "faker" /\ o.exc = "none"
                           THEN returned \cup {<<o.bucket, original_value, o.ret>>}
                           ELSE returned
            /\ compute_count' =
                  IF o.computed
                  THEN MapSet(compute_count, <<o.bucket, original_value>>,
                              KwGet(compute_count, <<o.bucket, original_value>>, 0) + 1)
                  ELSE compute_count
            /\ anonymized_values' = IF o.exc = "none"
                                    THEN MapSet(anonymized_values, col, o.ret)
                                    ELSE anonymized_values
            /\ col_pos' = IF o.exc = "none" THEN col_pos + 1 ELSE col_pos
            /\ pc' = main_loop(o.exc, "table")
    /\ ncalls' = ncalls + 1
    /\ UNCHANGED <<cache_file, disk, config_idx, nsaves, saved>>
    /\ UNCHANGED <<columns_to_anonymize, rows, row_idx, table, committed>>
    /\ UNCHANGED aux_vars

\* mutant: every row update is committed at once
SqlUpdateRowCommitting ==
    /\ pc = "table"
    /\ row_idx <= Len(rows)
    /\ col_pos > Len(columns_to_anonymize)
    /\ table' = IF anonymized_values # NoParams
                THEN update_row(table, rows[row_idx]["id"], anonymized_values)
                ELSE table
    /\ committed' = table'
    /\ row_idx' = row_idx + 1
    /\ col_pos' = 1
    /\ anonymized_values' = NoParams
    /\ last' = NoCall
    /\ UNCHANGED <<faker_cache, cache_file, disk, unique_seen, config_idx, pc,
                   returned, compute_count, ncalls, nsaves, saved>>
    /\ UNCHANGED <<columns_to_anonymize, rows>>
    /\ UNCHANGED aux_vars

\* the end of a turn of the row loop: the row is updated by its id, and the
\* next turn starts with no substitutes
SqlUpdateRow ==
    /\ pc = "table"
    /\ row_idx <= Len(rows)
    /\ col_pos > Len(columns_to_anonymize)
    /\ table' = IF anonymized_values # NoParams
                THEN update_row(table, rows[row_idx]["id"], anonymized_values)
                ELSE table
    /\ row_idx' = row_idx + 1
    /\ col_pos' = 1
    /\ anonymized_values' = NoParams
    /\ last' = NoCall
    /\ UNCHANGED <<faker_cache, cache_file, disk, unique_seen, config_idx, pc,
                   returned, compute_count, ncalls, nsaves, saved>>
    /\ UNCHANGED <<columns_to_anonymize, rows, committed>>
    /\ UNCHANGED aux_vars

\* mutant: the cache is saved after every table
SqlCommitSaving ==
    /\ pc = "table"
    /\ row_idx > Len(rows)
    /\ committed' = table
    /\ columns_to_anonymize' = <<>>
    /\ rows' = <<>>
    /\ row_idx' = 0
    /\ col_pos' = 0
    /\ pc' = "config"
    /\ last' = NoCall
    /\ \E s \in save_cache(cache_file, disk, faker_cache) :
          /\ disk' = s.disk
          /\ nsaves' = nsaves + s.attempts
          /\ saved' = IF s.ok THEN faker_cache ELSE saved
    /\ UNCHANGED <<faker_cache, cache_file, unique_seen, config_idx,
                   returned, compute_count, ncalls>>
    /\ UNCHANGED <<anonymized_values, table>>
    /\ UNCHANGED aux_vars

\* the adapter returns after the last row and anonymize_db_table commits
SqlCommit ==
    /\ pc = "table"
    /\ row_idx > Len(rows)
    /\ committed' = table
    /\ columns_to_anonymize' = <<>>
    /\ rows' = <<>>
    /\ row_idx' = 0
    /\ col_pos' = 0
    /\ pc' = "config"
    /\ last' = NoCall
    /\ UNCHANGED <<faker_cache, cache_file, disk, unique_seen, config_idx,
                   returned, compute_count, ncalls, nsaves, saved>>
    /\ UNCHANGED <<anonymized_values, table>>
    /\ UNCHANGED aux_vars

NextSql ==
    \/ StartConfig
    \/ SkipConfig
    \/ StartTable
    \/ SqlColumn
    \/ SqlUpdateRow
    \/ SqlCommit
    \/ EndConfig
    \/ MainExit

SpecSql == InitSql /\ [][NextSql]_vars

----------------------------------------------------------------------------
(* The SQL adapter for a table without id columns:
   anonymize_db_without_id_column replaces the distinct values of a column by
   one UPDATE statement per value *)

EVE == StrV(<<"Eve">>)

\* the column "first" is anonymized as first_name
NoIdColumns == << <<"first", StrRule(FIRST_NAME)>> >>

\* tables of one column; a stored name may be one that Faker generates too
NoIdTables ==
    UNION {[1..n -> [first : {BOB, EVE, STR42}]] : n \in 1..MaxRows}

\* SELECT DISTINCT column: the distinct values, in an order the database chooses
select_distinct(tbl, col) ==
    LET D == {tbl[r][col] : r \in 1..Len(tbl)}
    IN  {q \in [1..Cardinality(D) -> D] : \A i, j \in 1..Cardinality(D) : q[i] = q[j] => i = j}

\* the loop that fills anonymized_map: anonymize_value for every distinct
\* value in turn; an exception ends the loop
RECURSIVE anonymized_map(_, _, _, _)
anonymized_map(cache, seen, distinct_values, faker_or_template) ==
    IF distinct_values = <<>>
    THEN {[map |-> EmptyDict, cache |-> cache, seen |-> seen, exc |-> "none"]}
    ELSE LET n == Len(distinct_values)
             original_value == distinct_values[n]
         IN  UNION {IF prev.exc # "none" THEN {prev}
                    ELSE {[map |-> IF o.exc = "none"
                                   THEN SetItem(prev.map, original_value, o.ret)
                                   ELSE prev.map,
                           cache |-> o.cache, seen |-> o.seen, exc |-> o.exc]
                            : o \in anonymize_value(prev.cache, prev.seen, original_value,
                                                    faker_or_template, NoParams)}
                      : prev \in anonymized_map(cache, seen,
                                                SubSeq(distinct_values, 1, n - 1),
                                                faker_or_template)}

\* UPDATE table SET col = :new_value WHERE col = :orig_value, on the table as
\* the statements before it left it
execute_update(tbl, col, orig_value, new_value) ==
    [r \in 1..Len(tbl) |->
        IF tbl[r][col] = orig_value THEN [tbl[r] EXCEPT ![col] = new_value]
        ELSE tbl[r]]

\* result.rowcount
rowcount(tbl, col, orig_value) ==
    Cardinality({r \in 1..Len(tbl) : tbl[r][col] = orig_value})

InitNoId ==
    /\ EngineInit
    /\ DbIdle
    /\ DocIdle
    /\ LegacyIdle
    /\ committed \in NoIdTables
    /\ table = committed

\* process_config takes a table that has no id columns
StartNoIdTable ==
    /\ pc = "config"
    /\ ncalls < MaxCalls
    /\ columns_to_anonymize' = NoIdColumns
    /\ rows' = table
    /\ row_idx' = 0
    /\ col_pos' = 1
    /\ anonymized_values' = EmptyDict
    /\ count' = 0
    /\ pc' = "noid_select"
    /\ last' = NoCall
    /\ UNCHANGED <<faker_cache, cache_file, disk, unique_seen, config_idx,
                   returned, compute_count, ncalls, nsaves, saved>>
    /\ UNCHANGED <<table, committed>>
    /\ UNCHANGED <<doc_kind, doc_rule, originals, doc, doc_pos>>
    /\ UNCHANGED legacy_vars

\* the distinct values of the column are selected and anonymized_map is filled
NoIdSelect ==
    /\ pc = "noid_select"
    /\ LET col == columns_to_anonymize[col_pos][1]
           faker_or_template == columns_to_anonymize[col_pos][2]
       IN  \E distinct_values \in select_distinct(table, col) :
           \E m \in anonymized_map(faker_cache, unique_seen, distinct_values,
                                   faker_or_template) :
              /\ anonymized_values' = m.map
              /\ faker_cache' = m.cache
              /\ unique_seen' = m.seen
              /\ pc' = main_loop(m.exc, "noid_update")
    /\ row_idx' = 1
    /\ ncalls' = ncalls + 1
    /\ last' = NoCall
    /\ UNCHANGED <<cache_file, disk, config_idx, returned, compute_count, nsaves, saved>>
    /\ UNCHANGED <<columns_to_anonymize, rows, col_pos, table, committed>>
    /\ UNCHANGED aux_vars

\* one turn of the loop over anonymized_map.items(): one UPDATE statement
NoIdUpdate ==
    /\ pc = "noid_update"
    /\ row_idx <= Len(anonymized_values)
    /\ LET col == columns_to_anonymize[col_pos][1]
           original_value == anonymized_values[row_idx][1]
           anonymized_value == anonymized_values[row_idx][2]
       IN  /\ table' = execute_update(table, col, original_value, anonymized_value)
           /\ count' = count + rowcount(table, col, original_value)
    /\ row_idx' = row_idx + 1
    /\ last' = NoCall
    /\ UNCHANGED <<faker_cache, cache_file, disk, unique_seen, config_idx, pc,
                   returned, compute_count, ncalls, nsaves, saved>>
    /\ UNCHANGED <<columns_to_anonymize, rows, col_pos, anonymized_values, committed>>
    /\ UNCHANGED <<doc_kind, doc_rule, originals, doc, doc_pos>>
    /\ UNCHANGED legacy_vars

\* anonymize_db_without_id_column returns and anonymize_db_table commits
NoIdCommit ==
    /\ pc = "noid_update"
    /\ row_idx > Len(anonymized_values)
    /\ committed' = table
    /\ pc' = "config"
    /\ last' = NoCall
    /\ UNCHANGED <<faker_cache, cache_file, disk, unique_seen, config_idx,
                   returned, compute_count, ncalls, nsaves, saved>>
    /\ UNCHANGED <<columns_to_anonymize, rows, row_idx, col_pos, anonymized_values, table>>
    /\ UNCHANGED aux_vars

NextNoId ==
    \/ StartConfig
    \/ SkipConfig
    \/ StartNoIdTable
    \/ NoIdSelect
    \/ NoIdUpdate
    \/ NoIdCommit
    \/ EndConfig
    \/ MainExit

SpecNoId == InitNoId /\ [][NextNoId]_vars

----------------------------------------------------------------------------
(* The JSON and XML adapters: anonymize_json_string and anonymize_xml_string
   replace the value at every place a path matches and count as they go. A
   document is the sequence of the values at the places its path matches. *)

\* what a path finds: a JSON value, the text of an XML element (None for an
\* element without text), the value of an XML attribute (None if the element
\* has no such attribute)
FoundIn(kind) ==
    CASE kind = "json" -> {NoneV, StrV(<<>>), STR42}
      [] kind = "xml_text" -> {NoneV, StrV(<<" ", " ", " ">>), STR42}
      [] kind = "xml_attr" -> {NoneV, StrV(<<>>), STR42}

DocKinds == {"json", "xml_text", "xml_attr"}

\* the rules given for the path
DocRules == {DictRule(FIRST_NAME, NoParams), DictRule(NUMBER, NoParams), StrRule(NUMBER)}

\* the documents whose values can all be anonymized within the call budget
Documents(kind, budget) ==
    UNION {[1..n -> FoundIn(kind)] : n \in 1..budget}

\* what the adapter writes back: the JSON adapter the returned value,
\* the XML adapter str(anonymized_value)
written(kind, anonymized_value) ==
    IF kind = "json" THEN anonymized_value ELSE StrV(ToStr(anonymized_value))

\* whether the adapter anonymizes the place: an attribute that the element
\* does not have is left out, every other match is taken
is_taken(kind, original_value) == kind # "xml_attr" \/ original_value # NoneV

InitDoc ==
    /\ EngineInit
    /\ DbIdle
    /\ DocIdle
    /\ LegacyIdle
    /\ table = <<>>
    /\ committed = <<>>

\* process_config hands a document and the rule of one path to the adapter
StartDoc ==
    /\ pc = "config"
    /\ ncalls < MaxCalls
    /\ \E kind \in DocKinds :
          /\ doc_kind' = kind
          /\ doc' \in Documents(kind, MaxCalls - ncalls)
    /\ originals' = doc'
    /\ doc_rule' \in DocRules
    /\ doc_pos' = 1
    /\ count' = 0
    /\ pc' = "doc"
    /\ last' = NoCall
    /\ UNCHANGED <<faker_cache, cache_file, disk, unique_seen, config_idx,
                   returned, compute_count, ncalls, nsaves, saved>>
    /\ UNCHANGED db_vars
    /\ UNCHANGED legacy_vars

\* one turn of the loop over the matches: the value is anonymized, written
\* back and counted
DocValue ==
    /\ pc = "doc"
    /\ doc_pos <= Len(doc)
    /\ is_taken(doc_kind, doc[doc_pos])
    /\ LET originial_value == doc[doc_pos]
       IN  \E o \in anonymize_value(faker_cache, unique_seen, originial_value,
                                    doc_rule, NoParams) :
              /\ faker_cache' = o.cache
              /\ unique_seen' = o.seen
              /\ last' = [value |-> originial_value, rule |-> doc_rule,
                          context |-> NoParams, ret |-> o.ret, exc |-> o.exc,
                          path |-> o.path, computed |-> o.computed, bucket |-> o.bucket]
              /\ returned' = IF o.path = "faker" /\ o.exc = "none"
                             THEN returned \cup {<<o.bucket, originial_value, o.ret>>}
                             ELSE returned
              /\ compute_count' =
                    IF o.computed
                    THEN MapSet(compute_count, <<o.bucket, originial_value>>,
                                KwGet(compute_count, <<o.bucket, originial_value>>, 0) + 1)
                    ELSE compute_count
              /\ IF o.exc = "none"
                 THEN /\ doc' = [doc EXCEPT ![doc_pos] = written(doc_kind, o.ret)]
                      /\ count' = count + 1
                      /\ doc_pos' = doc_pos + 1
                 ELSE UNCHANGED <<doc, count, doc_pos>>
              /\ pc' = main_loop(o.exc, "doc")
    /\ ncalls' = ncalls + 1
    /\ UNCHANGED <<cache_file, disk, config_idx, nsaves, saved>>
    /\ UNCHANGED <<doc_kind, doc_rule, originals>>
    /\ UNCHANGED db_vars
    /\ UNCHANGED legacy_vars

\* an element without the attribute: nothing is called, written or counted
DocSkip ==
    /\ pc = "doc"
    /\ doc_pos <= Len(doc)
    /\ ~is_taken(doc_kind, doc[doc_pos])
    /\ doc_pos' = doc_pos + 1
    /\ last' = NoCall
    /\ UNCHANGED <<faker_cache, cache_file, disk, unique_seen, config_idx, pc,
                   returned, compute_count, ncalls, nsaves, saved>>
    /\ UNCHANGED <<doc_kind, doc_rule, originals, doc, count>>
    /\ UNCHANGED db_vars
    /\ UNCHANGED legacy_vars

\* the adapter returns the count and the document
DocDone ==
    /\ pc = "doc"
    /\ doc_pos > Len(doc)
    /\ pc' = "config"
    /\ last' = NoCall
    /\ UNCHANGED <<faker_cache, cache_file, disk, unique_seen, config_idx,
                   returned, compute_count, ncalls, nsaves, saved>>
    /\ UNCHANGED db_vars
    /\ UNCHANGED aux_vars

NextDoc ==
    \/ StartConfig
    \/ SkipConfig
    \/ StartDoc
    \/ DocValue
    \/ DocSkip
    \/ DocDone
    \/ EndConfig
    \/ MainExit

SpecDoc == InitDoc /\ [][NextDoc]_vars

----------------------------------------------------------------------------
(* The legacy tools multi_anonymizer.py and csv_anonymizer.py: substitutes
   are kept in defaultdicts, one per data type (FAKER_DICTS) or one for the
   run (FAKE_DICT) *)

MaxInputs == 2

\* random.randint(start, end) as bound by getRandomInt
randint(start, end) ==
    IF start > end THEN {}
    ELSE {n \in start..(start + MaxSpread - 1) : n <= end} \cup {end}

\* defaultdict(factory): the factory is a Faker method or getRandomInt(min, max)
DefaultDict(data_type, min_val, max_val) ==
    [default_factory |-> [data_type |-> data_type, min |-> min_val, max |-> max_val],
     items |-> EmptyDict]

\* what calling the default factory may return
factory_outcomes(factory) ==
    IF factory.data_type = "number"
    THEN {IntV(n) : n \in randint(factory.min, factory.max)}
    ELSE FakerOutcomes(<<factory.data_type>>)

\* fake_dict[key]: a missing key is filled by the default factory
defaultdict_getitem(d, key) ==
    IF HasKey(d.items, key)
    THEN {[value |-> GetItem(d.items, key), d |-> d, generated |-> FALSE]}
    ELSE {[value |-> v, d |-> [d EXCEPT !.items = SetItem(@, key, v)],
           generated |-> TRUE] : v \in factory_outcomes(d.default_factory)}

\* the range a selector of the inputs gives with (min=..,max=..)
SelectorMin == 5
SelectorMax == 6

\* Selector: the data type with the range of the number type; no regexp, and
\* the default template {{__value__}}
Selector(data_type, input_type) ==
    [data_type |-> data_type, input_type |-> input_type,
     min |-> SelectorMin, max |-> SelectorMax]

LegacyTypes == {"first_name", "number"}

\* create_faker_dict
create_faker_dict(selector) ==
    DefaultDict(selector.data_type, selector.min, selector.max)

\* mutant: every call gets a dict of its own
get_fake_dict_fresh(dicts, selector) ==
    MapSet(dicts, selector.data_type, create_faker_dict(selector))

\* get_fake_dict: FAKER_DICTS after the call; the dict of the selector's data
\* type is created when it is first asked for
get_fake_dict(dicts, selector) ==
    IF selector.data_type \in DOMAIN dicts THEN dicts
    ELSE MapSet(dicts, selector.data_type, create_faker_dict(selector))

\* the test of the line "empty values should stay empty":
\* `not None or isNumber or len(original_value) > 0`, in which `not None` is True
looks_up(original_value) ==
    \/ TRUE
    \/ original_value.kind = "int"
    \/ Len(original_value.s) > 0

\* multi_anonymizer.anonymize_value for a selector without regexp: the value
\* put into the template context as __value__, and the rendering of the
\* template {{__value__}} that is returned
legacy_anonymize_value(dicts, selector, original_value) ==
    LET dicts1 == get_fake_dict(dicts, selector)
    IN  IF looks_up(original_value)
        THEN {[value |-> g.value, ret |-> StrV(ToStr(g.value)),
               dicts |-> MapSet(dicts1, selector.data_type, g.d),
               generated |-> g.generated]
                 : g \in defaultdict_getitem(dicts1[selector.data_type], original_value)}
        ELSE {[value |-> StrV(<<>>), ret |-> StrV(<<>>), dicts |-> dicts1,
               generated |-> FALSE]}

\* s.strip()
RECURSIVE strip(_)
strip(s) ==
    IF s = <<>> THEN s
    ELSE IF Head(s) = " " THEN strip(Tail(s))
    ELSE IF s[Len(s)] = " " THEN strip(SubSeq(s, 1, Len(s) - 1))
    ELSE s

\* getRandomInt() of csv_anonymizer
LegacyDefaultMin == 0
LegacyDefaultMax == 1000000

InputKinds == {"csv", "xml", "json", "db"}

\* the cells of a csv file
CsvCells == {StrV(<<>>), StrV(<<" ", " ", " ">>), STR42, StrV(<<" ", "4", "2">>)}

\* what an adapter finds at a selected place: the text of an XML element (None
\* for an element without text), a JSON value, a column of a database row
FoundValues(input_type) ==
    CASE input_type = "csv" -> CsvCells
      [] input_type = "xml" -> {NoneV, StrV(<<>>), STR42}
      [] input_type = "json" -> {NoneV, STR42, INT42}
      [] input_type = "db" -> {NoneV, STR42, INT42}

\* the values an adapter hands to anonymize_value: anonymize_rows strips the
\* cell and skips an empty one, anonymize_xml passes element.text as it is,
\* anonymize_json_obj and anonymize_db skip None
HandedValues(input_type) ==
    CASE input_type = "csv" ->
            {StrV(strip(c.s)) : c \in {x \in CsvCells : Len(strip(x.s)) > 0}}
      [] input_type = "xml" -> FoundValues("xml")
      [] OTHER -> FoundValues(input_type) \ {NoneV}

\* the observation of one legacy call
LegacyCall(tool, selector, value, in_context, ret, generated) ==
    [value |-> value, rule |-> selector, context |-> [__value__ |-> in_context],
     ret |-> ret, exc |-> "none", path |-> tool, computed |-> generated,
     bucket |-> <<selector.data_type>>]

\* the engine of anonymizer.py is not constructed by the legacy tools
EngineUnused ==
    /\ cache_file = FALSE
    /\ disk = DiskMissing
    /\ faker_cache = load_cache(FALSE, DiskMissing)
    /\ unique_seen = [m \in faker_methods |-> {}]
    /\ config_idx = 1
    /\ last = NoCall
    /\ returned = {}
    /\ compute_count = NoParams
    /\ ncalls = 0
    /\ nsaves = 0
    /\ saved = NoParams

\* --input of multi_anonymizer: existing files and database URLs, each with a
\* selector that names its type
InputLists ==
    UNION {[1..n -> [kind : InputKinds, data_type : LegacyTypes]] : n \in 1..MaxInputs}

\* a run of multi_anonymizer, or of csv_anonymizer with --type
InitLegacy ==
    /\ EngineUnused
    /\ DbIdle
    /\ table = <<>>
    /\ committed = <<>>
    /\ DocIdle
    /\ source_is_database = FALSE
    /\ source_selector_map = <<>>
    /\ processed = <<>>
    /\ adapter = "none"
    /\ FAKER_DICTS = NoParams
    /\ \/ /\ pc = "parse"
          /\ ARGS_input \in InputLists
          /\ input_idx = 1
          /\ FAKE_DICT = EmptyDict
       \/ /\ pc = "csv_tool"
          /\ ARGS_input = <<>>
          /\ input_idx = 0
          /\ \E t \in LegacyTypes :
                FAKE_DICT = DefaultDict(t, LegacyDefaultMin, LegacyDefaultMax)

legacy_rest ==
    <<faker_cache, cache_file, disk, unique_seen, config_idx, compute_count,
      nsaves, saved>>

\* one pass of the loop over ARGS.input: source_is_database is set from this
\* input's name and the selector is filed under its source
ParseInput ==
    /\ pc = "parse"
    /\ input_idx <= Len(ARGS_input)
    /\ LET inp == ARGS_input[input_idx]
           source == [kind |-> inp.kind, id |-> input_idx]
       IN  /\ source_is_database' = (inp.kind = "db")
           /\ source_selector_map' =
                 Append(source_selector_map,
                        [source |-> source, selector |-> Selector(inp.data_type, inp.kind)])
    /\ IF input_idx = Len(ARGS_input)
       THEN pc' = "process" /\ input_idx' = 1
       ELSE pc' = "parse" /\ input_idx' = input_idx + 1
    /\ last' = NoCall
    /\ UNCHANGED <<ARGS_input, processed, adapter, FAKER_DICTS, FAKE_DICT>>
    /\ UNCHANGED <<returned, ncalls>>
    /\ UNCHANGED legacy_rest
    /\ UNCHANGED db_vars
    /\ UNCHANGED doc_vars

\* the adapter the processing loop starts for a source: anonymize_db when
\* source_is_database, else the adapter of the selector's input type if the
\* source is a file, else none ("file does not exist")
dispatch(is_database, source, selector) ==
    IF is_database THEN "db"
    ELSE IF source.kind # "db" THEN selector.input_type
    ELSE "none"

\* one pass of the loop over source_selector_map: anonymize_db fails on a name
\* that is no database URL (create_engine raises), and a source that is no
\* file ends the run with status 1
ProcessSource ==
    /\ pc = "process"
    /\ input_idx <= Len(source_selector_map)
    /\ LET e == source_selector_map[input_idx]
           a == dispatch(source_is_database, e.source, e.selector)
       IN  /\ processed' = Append(processed, [source |-> e.source, adapter |-> a])
           /\ IF a = "none" \/ (a = "db" /\ e.source.kind # "db")
              THEN pc' = "exit1" /\ adapter' = "none"
              ELSE pc' = "adapter" /\ adapter' = a
    /\ last' = NoCall
    /\ UNCHANGED <<ARGS_input, input_idx, source_is_database, source_selector_map,
                   FAKER_DICTS, FAKE_DICT>>
    /\ UNCHANGED <<returned, ncalls>>
    /\ UNCHANGED legacy_rest
    /\ UNCHANGED db_vars
    /\ UNCHANGED doc_vars

\* the running adapter anonymizes one value it found
LegacyValue ==
    /\ pc = "adapter"
    /\ ncalls < MaxCalls
    /\ LET selector == source_selector_map[input_idx].selector
       IN  \E v \in HandedValues(adapter) :
           \E o \in legacy_anonymize_value(FAKER_DICTS, selector, v) :
              /\ FAKER_DICTS' = o.dicts
              /\ last' = LegacyCall("multi", selector, v, o.value, o.ret, o.generated)
              /\ returned' = returned \cup {<<selector.data_type, v, o.ret, input_idx>>}
    /\ ncalls' = ncalls + 1
    /\ UNCHANGED <<ARGS_input, input_idx, source_is_database, source_selector_map,
                   processed, adapter, FAKE_DICT, pc>>
    /\ UNCHANGED legacy_rest
    /\ UNCHANGED db_vars
    /\ UNCHANGED doc_vars

\* the adapter returns and the loop takes the next source
AdapterDone ==
    /\ pc = "adapter"
    /\ pc' = "process"
    /\ adapter' = "none"
    /\ input_idx' = input_idx + 1
    /\ last' = NoCall
    /\ UNCHANGED <<ARGS_input, source_is_database, source_selector_map, processed,
                   FAKER_DICTS, FAKE_DICT>>
    /\ UNCHANGED <<returned, ncalls>>
    /\ UNCHANGED legacy_rest
    /\ UNCHANGED db_vars
    /\ UNCHANGED doc_vars

\* csv_anonymizer.anonymize_rows for one row: a filled cell is replaced by
\* FAKE_DICT[cell.strip()]
CsvToolRow ==
    /\ pc = "csv_tool"
    /\ ncalls < MaxCalls
    /\ \E v \in HandedValues("csv") :
       \E g \in defaultdict_getitem(FAKE_DICT, v) :
          /\ FAKE_DICT' = g.d
          /\ last' = LegacyCall("csv_tool",
                                Selector(FAKE_DICT.default_factory.data_type, "csv"),
                                v, g.value, g.value, g.generated)
          /\ returned' = returned \cup {<<FAKE_DICT.default_factory.data_type, v, g.value, input_idx>>}
    /\ ncalls' = ncalls + 1
    /\ UNCHANGED <<ARGS_input, input_idx, source_is_database, source_selector_map,
                   processed, adapter, FAKER_DICTS, pc>>
    /\ UNCHANGED legacy_rest
    /\ UNCHANGED db_vars
    /\ UNCHANGED doc_vars

\* the tool ends after its last source
LegacyExit ==
    /\ \/ pc = "process" /\ input_idx > Len(source_selector_map)
       \/ pc = "csv_tool"
    /\ pc' = "exit0"
    /\ last' = NoCall
    /\ UNCHANGED legacy_vars
    /\ UNCHANGED <<returned, ncalls>>
    /\ UNCHANGED legacy_rest
    /\ UNCHANGED db_vars
    /\ UNCHANGED doc_vars

NextLegacy ==
    \/ ParseInput
    \/ ProcessSource
    \/ LegacyValue
    \/ AdapterDone
    \/ CsvToolRow
    \/ LegacyExit

SpecLegacy == InitLegacy /\ [][NextLegacy]_vars

----------------------------------------------------------------------------
(* Properties *)

\* the step just taken was an anonymize_value call
Called == last.path # "none"
\* this step is an anonymize_value call
CallStep == ncalls' = ncalls + 1

\* the generator type a rule names, without the unique/ prefix
TypeOf(rule) ==
    IF Len(rule.val) >= 1 /\ rule.val[1] = UNIQUE THEN Tail(rule.val) ELSE rule.val

\* (type, value) has a substitute in the cache
Cached(cache, type, value) ==
    type \in DOMAIN cache /\ \E i \in 1..Len(cache[type]) : cache[type][i][1] = value

\* what rendering a template in a context returns, None normalised
Rendered(template, context) ==
    IF render(template, context) = <<"None">> THEN NoneV
    ELSE StrV(render(template, context))

C2_Partitioned ==
    [][CallStep =>
        /\ DOMAIN faker_cache \subseteq DOMAIN faker_cache'
        /\ \A b \in DOMAIN faker_cache' :
              (b \notin DOMAIN faker_cache \/ faker_cache'[b] # faker_cache[b])
                 => (last'.path = "faker" /\ b = TypeOf(last'.rule))
        /\ (last'.path = "faker" /\ last'.exc = "none") =>
              IF Cached(faker_cache, TypeOf(last'.rule), last'.value)
              THEN last'.ret = GetItem(faker_cache[TypeOf(last'.rule)], last'.value)
              ELSE last'.computed \/ TypeOf(last'.rule) \notin faker_methods \cup {NUMBER}
    ]_vars

\* C2 witness: the same original value holds different substitutes under two
\* generator types, the second one just computed.
C2_Witness ==
    /\ last.path = "faker"
    /\ last.computed
    /\ \E b \in DOMAIN faker_cache :
          /\ b # last.bucket
          /\ Cached(faker_cache, b, last.value)
          /\ Cached(faker_cache, last.bucket, last.value)
          /\ GetItem(faker_cache[b], last.value)
                # GetItem(faker_cache[last.bucket], last.value)

\* C3 (as claimed): anonymize_value(null, rule, context) returns null for
\* every rule kind, before any generator is invoked or template rendered.
C3_NullReturnsNull ==
    (Called /\ last.value = NoneV) =>
        (last.exc = "none" /\ last.ret = NoneV /\ ~last.computed)

\* C4 (as claimed): a whitespace-only string (the empty string included) is
\* returned unchanged, for every rule kind.
C4_BlankReturnedUnchanged ==
    (Called /\ last.value.kind = "str" /\ IsBlank(last.value.s)) =>
        (last.exc = "none" /\ last.ret = last.value)

\* C5: a call whose original value is null or a whitespace-only string leaves
\* the cache unchanged: no entry and no bucket is added.
C5_SentinelLeavesCache ==
    [][(CallStep /\ last'.value \in Sentinels) => faker_cache' = faker_cache]_vars

\* C5 witness: a whitespace-only value was anonymized with a generator rule
\* whose bucket does not exist, and it still does not exist.
C5_Witness ==
    /\ Called
    /\ last.value = StrV(<<" ", " ", " ">>)
    /\ last.rule = DictRule(NUMBER, NoParams)
    /\ last.exc = "none"
    /\ NUMBER \notin DOMAIN faker_cache

\* C6: for each key (generator type, original value) the generator is invoked
\* at most once in an engine's lifetime: it is invoked on a call exactly when
\* the key is not yet cached (first encounter), never on a later call and
\* never for a key loaded from the cache file.
C6_ComputeAtMostOnce ==
    /\ [](\A k \in DOMAIN compute_count : compute_count[k] <= 1)
    /\ [][(CallStep /\ last'.path = "faker") =>
            (last'.computed <=>
                (/\ ~Cached(faker_cache, TypeOf(last'.rule), last'.value)
                 /\ TypeOf(last'.rule) \in faker_methods \cup {NUMBER}))]_vars

\* C6 witness: a key that came from the loaded cache file is answered without
\* the generator having ever been invoked for it.
C6_Witness ==
    /\ last.path = "faker"
    /\ last.exc = "none"
    /\ ~last.computed
    /\ last.bucket = FIRST_NAME
    /\ <<last.bucket, last.value>> \notin DOMAIN compute_count

\* the range a number rule gives in its params
MinOf(rule) == KwGet(rule.params, "min", DefaultMin)
MaxOf(rule) == KwGet(rule.params, "max", DefaultMax)
IsNumberCall(c) ==
    /\ c.path = "faker"
    /\ c.rule.form = "dict"
    /\ c.rule.val = NUMBER
    /\ c.exc = "none"
InRange(v, rule) == v.kind = "int" /\ MinOf(rule) <= v.n /\ v.n <= MaxOf(rule)

\* C7 (as claimed): every substitute returned for a number rule is an integer
\* in the closed range [min, max] given in that call, whatever calls were
\* made before.
C7_NumberInRange ==
    (Called /\ IsNumberCall(last)) => InRange(last.ret, last.rule)

\* C7 (amended): a number rule returns an integer of [min, max] of that call
\* when (number, V) is not cached yet; when it is cached, the cached
\* substitute is returned whatever range the call gives.
C7_FreshNumberInRange ==
    [][(CallStep /\ IsNumberCall(last')) =>
         IF Cached(faker_cache, NUMBER, last'.value)
         THEN last'.ret = GetItem(faker_cache[NUMBER], last'.value)
         ELSE InRange(last'.ret, last'.rule)]_vars

\* C7 witness: min = 5, max = 5 on a value not cached yet returned 5.
C7_Witness ==
    /\ Called
    /\ IsNumberCall(last)
    /\ last.computed
    /\ last.rule.params = [min |-> 5, max |-> 5]
    /\ last.ret = IntV(5)

\* a structured rule whose type is neither a Faker method nor "number"
IsUnknownTypeCall(c) ==
    /\ c.path = "faker"
    /\ c.rule.form = "dict"
    /\ TypeOf(c.rule) \notin faker_methods \cup {NUMBER}

\* a structured rule of a known type with acceptable params
IsValidRule(rule) ==
    /\ rule.form = "dict"
    /\ \/ (rule.val = NUMBER /\ MinOf(rule) <= MaxOf(rule))
       \/ (TypeOf(rule) \in faker_methods /\ rule.params = NoParams)

\* C8 (as claimed): an unknown generator type makes anonymize_value return
\* the marker INVALID_FAKER_METHOD(<name>) containing the configured name,
\* without raising.
C8_MarkerHoldsConfiguredName ==
    (Called /\ IsUnknownTypeCall(last)) =>
        /\ last.exc = "none"
        /\ last.ret.kind = "str"
        /\ Contains(last.ret.s, <<"INVALID_FAKER_METHOD(">>)
        /\ Contains(last.ret.s, last.rule.val)

\* C8 (amended): an unknown generator type makes anonymize_value return
\* INVALID_FAKER_METHOD(<name>), <name> being the configured type without
\* its unique/ prefix, without raising; the run goes on, and a following
\* call with another original value and a valid rule returns a substitute
\* of that rule's generator.
C8_MarkerThenUsable ==
    /\ []((Called /\ IsUnknownTypeCall(last)) =>
            /\ last.exc = "none"
            /\ pc = "config"
            /\ last.ret = StrV(<<"INVALID_FAKER_METHOD(">> \o TypeOf(last.rule) \o <<")">>))
    /\ [][(/\ Called /\ IsUnknownTypeCall(last)
            /\ CallStep
            /\ last'.value \in NonSentinels
            /\ last'.value # last.value
            /\ IsValidRule(last'.rule)) =>
               /\ last'.exc = "none"
               /\ IF last'.rule.val = NUMBER THEN last'.ret.kind = "int"
                  ELSE last'.ret \in FakerOutcomes(TypeOf(last'.rule))]_vars

\* C8 witness: the marker was cached for one value under the unknown type,
\* and a valid rule then computed a substitute for another value.
C8_Witness ==
    /\ last.path = "faker"
    /\ last.computed
    /\ last.exc = "none"
    /\ last.bucket = FIRST_NAME
    /\ \E v \in NonSentinels :
          /\ v # last.value
          /\ Cached(faker_cache, NOPE, v)
          /\ GetItem(faker_cache[NOPE], v)
                = StrV(<<"INVALID_FAKER_METHOD(", "not_a_real_generator", ")">>)

\* C9: rule dispatch: a structured rule is always a generator rule; a bare
\* string is a cached generator rule when its name, without the unique/
\* prefix, is a generator name; only otherwise is it rendered as a template.
C9_Dispatch ==
    Called =>
        /\ last.rule.form = "dict" => last.path \in {"faker", "sentinel"}
        /\ (last.rule.form = "str" /\ TypeOf(last.rule) \in faker_methods) =>
              /\ last.path \in {"faker", "sentinel"}
              /\ (last.path = "faker" /\ last.exc = "none") =>
                    /\ Cached(faker_cache, TypeOf(last.rule), last.value)
                    /\ GetItem(faker_cache[TypeOf(last.rule)], last.value) = last.ret
        /\ (last.rule.form = "str" /\ TypeOf(last.rule) \notin faker_methods) =>
              last.path = "template"

\* C9 witness: the bare string unique/first_name was evaluated as a generator
\* rule and its substitute cached under first_name.
C9_Witness ==
    /\ last.rule = StrRule(<<UNIQUE>> \o FIRST_NAME)
    /\ last.path = "faker"
    /\ last.computed
    /\ Cached(faker_cache, FIRST_NAME, last.value)

\* C10: evaluating a template rule leaves the cache as it was and returns
\* what rendering the template in the call's context gives, whatever is
\* cached: the template is rendered again on every call.
C10_TemplateNotCached ==
    [][(CallStep /\ last'.path = "template") =>
         /\ faker_cache' = faker_cache
         /\ last'.exc = "none" => last'.ret = Rendered(last'.rule.val, last'.context)]_vars

\* C10 witness: a value that has a cached substitute was given to a template
\* whose result depends on the row context, and the context's value came out.
C10_Witness ==
    /\ last.path = "template"
    /\ last.value = STR42
    /\ Cached(faker_cache, FIRST_NAME, STR42)
    /\ last.rule = StrRule(<<ROW_FIRST, "@example.com">>)
    /\ last.context = [first |-> BOB]
    /\ last.ret = StrV(<<"Bob", "@example.com">>)
    /\ Rendered(last.rule.val, [first |-> NoneV]) # last.ret


----------------------------------------------------------------------------
\* the columns processed before the current one in the current row
EarlierColumns == {columns_to_anonymize[j][1] : j \in 1..(col_pos - 1)}

\* what the current turn of the column loop must see of column c: the
\* substitute if c was processed earlier in this row, else the fetched value
Seen(c) == IF c \in EarlierColumns THEN anonymized_values[c] ELSE rows[row_idx][c]

\* C11: in the SQL adapter with id columns every call made for a row gets the
\* fetched row overlaid with exactly the substitutes computed earlier in that
\* same row, in configuration order: the substitutes held at a call are those
\* of the earlier columns only (none at the first column of a row, so nothing
\* of another row), a column not yet processed is seen with its fetched value,
\* the e-mail template prints the substitute of 'first' when 'first' came
\* earlier and the fetched value otherwise, and the call's result is recorded
\* for its own column alone
C11_ContextOverlay ==
    [][(CallStep /\ pc = "table") =>
        LET row == rows[row_idx]
            col == columns_to_anonymize[col_pos][1]
        IN  /\ DOMAIN anonymized_values = EarlierColumns
            /\ last'.value = row[col]
            /\ last'.rule = columns_to_anonymize[col_pos][2]
            /\ DOMAIN last'.context = DOMAIN row
            /\ \A c \in DOMAIN row : last'.context[c] = Seen(c)
            /\ (last'.rule = EMAIL_TEMPLATE) =>
                   last'.ret = StrV(ToStr(Seen("first")) \o <<"@example.com">>)
            /\ (last'.exc = "none") =>
                   /\ DOMAIN anonymized_values' = EarlierColumns \cup {col}
                   /\ anonymized_values'[col] = last'.ret
                   /\ \A c \in EarlierColumns :
                          anonymized_values'[c] = anonymized_values[c]]_vars

\* the e-mail template of the second row has just seen that row's substitute
\* of 'first', which is neither the fetched value nor the first row's substitute
C11_Witness ==
    /\ pc = "table"
    /\ Called
    /\ row_idx = 2
    /\ last.rule = EMAIL_TEMPLATE
    /\ "first" \in DOMAIN anonymized_values
    /\ last.context["first"] = anonymized_values["first"]
    /\ last.context["first"] # rows[2]["first"]
    /\ last.context["first"] # table[1]["first"]
    /\ table[1]["first"] # rows[1]["first"]

----------------------------------------------------------------------------
\* the engine was constructed after the last successful save and has not
\* saved since: its cache was loaded from the file that save wrote
FreshEngine == nsaves = 0 /\ disk = DiskJson(json_dump(saved))

\* C12: a generator rule of type T applied by a fresh engine to a value V that
\* was in the cache under T at save time returns the saved substitute without
\* invoking the generator
C12_RoundTrip ==
    (Called /\ FreshEngine /\ last.path = "faker"
            /\ Cached(saved, last.bucket, last.value))
    => /\ last.exc = "none"
       /\ last.ret = GetItem(saved[last.bucket], last.value)
       /\ ~last.computed

----------------------------------------------------------------------------
\* C13: the cache key is (generator type, original value as string): no
\* bucket holds two entries whose keys have the same text, and two values
\* with the same text were never given different substitutes under one type
C13_KeyIsString ==
    /\ \A b \in DOMAIN faker_cache :
          \A i, j \in 1..Len(faker_cache[b]) :
              ToStr(faker_cache[b][i][1]) = ToStr(faker_cache[b][j][1]) => i = j
    /\ \A r1, r2 \in returned :
          (r1[1] = r2[1] /\ ToStr(r1[2]) = ToStr(r2[2])) => r1[3] = r2[3]

----------------------------------------------------------------------------
\* the rule asks for a unique value
IsUniqueRule(rule) == Len(rule.val) >= 1 /\ rule.val[1] = UNIQUE

\* C14: a substitute just generated by a unique/<type> rule is not the
\* substitute of any other original value (one with another text) in that
\* type's bucket
C14_UniqueNeverRepeats ==
    (Called /\ last.exc = "none" /\ last.path = "faker" /\ last.computed
            /\ IsUniqueRule(last.rule))
    => \A i \in 1..Len(faker_cache[last.bucket]) :
           ToStr(faker_cache[last.bucket][i][1]) # ToStr(last.value)
           => faker_cache[last.bucket][i][2] # last.ret

----------------------------------------------------------------------------
\* the rule is evaluated as a generator rule of the type it names
IsGeneratorRule(rule) == rule.form = "dict" \/ TypeOf(rule) \in faker_methods

\* C15: "unique/T" and "T" use the bucket T: a generator rule of either form
\* applied to a value that already has a substitute under T, whichever form
\* put it there, returns that substitute from the bucket T and invokes no
\* generator
C15_SharedBucket ==
    [][(CallStep /\ IsGeneratorRule(last'.rule)
                 /\ Cached(faker_cache, TypeOf(last'.rule), last'.value))
        => /\ last'.exc = "none"
           /\ last'.bucket = TypeOf(last'.rule)
           /\ last'.ret = GetItem(faker_cache[TypeOf(last'.rule)], last'.value)
           /\ ~last'.computed
           /\ unique_seen' = unique_seen]_vars

\* a "unique/first_name" call has just returned, without generating, the
\* substitute the plain form generated earlier in this run
C15_Witness ==
    /\ Called
    /\ last.rule = StrRule(<<UNIQUE>> \o FIRST_NAME)
    /\ last.exc = "none"
    /\ ~last.computed
    /\ <<FIRST_NAME, last.value>> \in DOMAIN compute_count
    /\ unique_seen[FIRST_NAME] = {}
    /\ <<FIRST_NAME, last.value, last.ret>> \in returned

----------------------------------------------------------------------------
\* the cache file holds a mapping of generator type to a mapping
IsCacheMapping(d) ==
    d.state = "json" /\ \A b \in DOMAIN d.data : is_mapping(d.data[b])

\* the rule cannot raise on an engine that was given no cache file
NeverRaises(rule) ==
    IF rule.form = "dict" THEN IsValidRule(rule) /\ ~IsUniqueRule(rule)
    ELSE IF TypeOf(rule) \in faker_methods THEN ~IsUniqueRule(rule)
    ELSE template_parses(rule.val)

\* C16: on a cache file that is anything but a mapping of mappings the engine
\* starts with an empty cache, and no call whose rule is valid raises
C16_MalformedDegrades ==
    (cache_file /\ nsaves = 0 /\ ~IsCacheMapping(disk))
    => /\ (pc = "main" /\ config_idx = 1 /\ ncalls = 0) => faker_cache = NoParams
       /\ (Called /\ NeverRaises(last.rule)) => last.exc = "none"

----------------------------------------------------------------------------
\* every save this engine attempted has failed: nothing was ever written, and
\* the file is not the one a successful save of an empty cache leaves
SaveFailed == nsaves >= 1 /\ saved = NoParams /\ disk # DiskJson(NoParams)

\* C17: a save, failed or not, ends process_config normally (main goes on to
\* the next entry) and leaves the in-memory cache and Faker's state as they
\* were; after failed saves a generator rule still returns the substitute the
\* cache holds for the value, without generating
C17_SaveFailureRecoverable ==
    [][/\ (nsaves' # nsaves) =>
            /\ pc = "config" /\ pc' = "main"
            /\ config_idx' = config_idx + 1
            /\ faker_cache' = faker_cache
            /\ unique_seen' = unique_seen
       /\ (CallStep /\ SaveFailed /\ IsGeneratorRule(last'.rule)
                    /\ Cached(faker_cache, TypeOf(last'.rule), last'.value)) =>
            /\ last'.exc = "none"
            /\ last'.ret = GetItem(faker_cache[TypeOf(last'.rule)], last'.value)
            /\ ~last'.computed]_vars

\* the first entry's save failed (the file still holds what an earlier run
\* wrote), and the first call of the second entry returned the substitute
\* that was in the cache before that save
C17_Witness ==
    /\ SaveFailed
    /\ nsaves = 1
    /\ config_idx = 2
    /\ pc = "config"
    /\ Called
    /\ ncalls = 1
    /\ last.path = "faker"
    /\ ~last.computed
    /\ last.ret = BOB
    /\ disk = DiskJson(SavedCache)

----------------------------------------------------------------------------
\* C18: with a cache file the cache is saved exactly when process_config
\* completes an enabled entry, once: a save is attempted by no other step (no
\* call, no table commit, no disabled entry), the file changes in no other
\* step, and a step that aborts the run saves nothing; without a cache file
\* nothing is ever saved
C18_SavedOncePerEntry ==
    [][/\ (nsaves' # nsaves \/ disk' # disk) =>
            /\ cache_file
            /\ nsaves' = nsaves + 1
            /\ pc = "config" /\ pc' = "main"
            /\ row_idx = 0
            /\ config_idx' = config_idx + 1
            /\ ncalls' = ncalls
       /\ (cache_file /\ pc = "config" /\ pc' = "main") => nsaves' = nsaves + 1
       /\ (pc' = "exit1") => (nsaves' = nsaves /\ disk' = disk /\ saved' = saved)
      ]_vars

\* one entry with a cache file has been processed to completion: several
\* values were substituted, a table was committed, and one save was made,
\* which wrote the whole cache
C18_Witness ==
    /\ cache_file
    /\ pc = "main"
    /\ config_idx = 2
    /\ ncalls >= 2
    /\ committed # <<>>
    /\ faker_cache # NoParams
    /\ nsaves = 1
    /\ disk = DiskJson(json_dump(faker_cache))

----------------------------------------------------------------------------
\* the rule is rendered as a template
IsTemplateRule(rule) == rule.form = "str" /\ TypeOf(rule) \notin faker_methods

\* C19: a template that does not parse, or whose rendering fails, makes the
\* call raise, and the raise ends the run with exit status 1 at once: the
\* value gets no substitute, nothing is saved or committed, and no step (no
\* later value, table or entry) follows the exit
C19_TemplateErrorFatal ==
    [][/\ pc # "exit1"
       /\ (CallStep /\ IsTemplateRule(last'.rule)
                    /\ ~template_parses(last'.rule.val)) =>
              last'.exc = "TemplateSyntaxError"
       /\ (CallStep /\ IsTemplateRule(last'.rule)
                    /\ template_parses(last'.rule.val)
                    /\ ~template_renders(last'.rule.val, last'.context)) =>
              last'.exc = "UndefinedError"
       /\ (CallStep /\ last'.exc # "none") =>
              /\ pc' = "exit1"
              /\ anonymized_values' = anonymized_values
              /\ UNCHANGED <<faker_cache, disk, nsaves, config_idx, table, committed>>
      ]_vars

\* the template of the second row's column failed to render after the first
\* row was updated: the run has exited with status 1 and the update is not
\* committed
C19_Witness ==
    /\ pc = "exit1"
    /\ last.exc = "UndefinedError"
    /\ row_idx = 2
    /\ table # committed

----------------------------------------------------------------------------
\* C20: a call that fails for another reason than a template error (the
\* generator rejects its params, an empty number range, a unique/ generator
\* with no value left) does not abort the run
C20_ValueFailureContained ==
    (Called /\ last.exc \in {"TypeError", "ValueError", "UniquenessException"})
    => pc = "config"

----------------------------------------------------------------------------
\* C21: a template whose rendering is exactly the text None returns a true
\* null; any other rendering is returned as the string that was rendered
C21_NoneNormalised ==
    (Called /\ IsTemplateRule(last.rule) /\ last.exc = "none")
    => LET text == render(last.rule.val, last.context)
       IN  /\ (text = <<"None">>) => last.ret = NoneV
           /\ (text # <<"None">>) => last.ret = StrV(text)

\* a template printing a null row field has just returned null for an
\* original value that is not null
C21_Witness ==
    /\ Called
    /\ last.rule = StrRule(<<ROW_FIRST>>)
    /\ last.context = [first |-> NoneV]
    /\ last.value = STR42
    /\ last.exc = "none"
    /\ last.ret = NoneV

\* an original value that is not empty
IsFilled(v) == v.kind = "int" \/ (v.kind = "str" /\ Len(v.s) > 0)

\* C22: in the legacy tools a non-empty original value anonymized with a given
\* type gets the same substitute wherever it occurs in a run: in every row,
\* in every input, in whichever order the inputs are given
C22_LegacySameSubstitute ==
    \A x \in returned : \A y \in returned :
        (x[1] = y[1] /\ x[2] = y[2] /\ IsFilled(x[2])) => x[3] = y[3]

\* the value "42" was replaced in the first and in the second input, with the
\* same type, and the second occurrence was looked up, not generated
C22_Witness ==
    /\ pc = "adapter" /\ last.path = "multi" /\ input_idx = 2
    /\ last.value = STR42 /\ ~last.computed
    /\ <<last.bucket[1], STR42, last.ret, 1>> \in returned
    /\ <<last.bucket[1], STR42, last.ret, 2>> \in returned
    /\ processed[1].adapter # processed[2].adapter

\* C23: inputs of different kinds can be mixed in one invocation in any
\* order: every source is processed by the adapter of its own input type,
\* whatever the other inputs are and whichever was given last
C23_OwnAdapter ==
    \A i \in 1..Len(processed) : processed[i].adapter = processed[i].source.kind

\* C24: in multi_anonymizer.anonymize_value an empty or null original value
\* stays empty: nothing is generated for it, the dictionary of the type gets
\* no entry for it, and the value put into the template context is ''
C24_EmptyStaysEmpty ==
    (last.path = "multi" /\ ~IsFilled(last.value))
    => /\ ~last.computed
       /\ ~HasKey(FAKER_DICTS[last.rule.data_type].items, last.value)
       /\ last.context["__value__"] = StrV(<<>>)

\* anonymize_db_without_id_column has executed its last UPDATE for the column
NoIdFinished == pc = "noid_update" /\ row_idx > Len(anonymized_values)

\* C25: when anonymize_db_without_id_column has finished a column, every row
\* that held V holds the substitute computed for V, and rows with different
\* originals and different substitutes are not merged by the UPDATE statements
C25_RowsHoldTheirSubstitute ==
    NoIdFinished
    => /\ \A r \in 1..Len(rows) :
             table[r]["first"] = GetItem(anonymized_values, rows[r]["first"])
       /\ \A r1, r2 \in 1..Len(rows) :
             GetItem(anonymized_values, rows[r1]["first"])
                # GetItem(anonymized_values, rows[r2]["first"])
             => table[r1]["first"] # table[r2]["first"]

\* the (generator type, original value, substitute) entries of a cache
Entries(cache) ==
    UNION {{<<b, cache[b][i][1], cache[b][i][2]>> : i \in 1..Len(cache[b])}
              : b \in DOMAIN cache}

\* C26: an entry of the cache keeps its substitute and is never removed
\* while the engine lives: every step leaves the entries as they are or adds
\* exactly one, and only a call of anonymize_value changes the cache at all
\* (nothing loads it again after construction)
C26_EntriesKept ==
    [][/\ Entries(faker_cache) \subseteq Entries(faker_cache')
       /\ Cardinality(Entries(faker_cache')) <= Cardinality(Entries(faker_cache)) + 1
       /\ (faker_cache' # faker_cache => last'.path # "none")]_vars

\* a call added the entry of 42 to the two first_name entries loaded from the
\* cache file, which are still there
C26_Witness ==
    /\ Called /\ last.computed /\ last.exc = "none" /\ last.value = INT42
    /\ FIRST_NAME \in DOMAIN faker_cache
    /\ Len(faker_cache[FIRST_NAME]) = 3
    /\ Entries(SavedCache) \subseteq Entries(faker_cache)

\* C27: the row updates of a table are committed together, by one commit
\* after its last row: the committed table changes only in that step and then
\* takes all updates; while a table is processed the committed table is the
\* one that was fetched, and a step that ends the run commits nothing
C27_SingleCommit ==
    [][/\ (committed' # committed) =>
              /\ pc = "table" /\ row_idx > Len(rows)
              /\ committed' = table
              /\ pc' = "config"
       /\ (pc' = "table") => committed' = rows'
       /\ (pc' \in {"exit0", "exit1"}) => committed' = committed
      ]_vars

\* the run failed in the second row of a table: the update of the first row
\* is not committed, the database holds the table as it was fetched
C27_Witness ==
    /\ pc = "exit1" /\ last.exc # "none"
    /\ row_idx = 2 /\ Len(rows) = 2
    /\ table[1] # rows[1]
    /\ committed = rows

\* the adapter has gone through all matches and returns
DocFinished == pc = "doc" /\ doc_pos > Len(doc)

\* C28: the XML adapter writes a null back as null: an element without text
\* has no text afterwards, and what is written is the value anonymize_value
\* returned (as text, for a value that is not null), never the marker "None"
C28_XmlNullStaysNull ==
    (doc_kind = "xml_text" /\ pc = "doc" /\ Called /\ last.exc = "none")
    => LET text == doc[doc_pos - 1]
       IN  /\ (last.ret = NoneV) => text = NoneV
           /\ (last.ret # NoneV) => text = StrV(ToStr(last.ret))
           /\ text # StrV(<<"None">>)

\* the places of the document whose value is not the original one
Changed == {i \in 1..Len(doc) : doc[i] # originals[i]}

\* C29: the count the JSON and XML adapters return is the number of values
\* that were changed; a matched place whose null or empty value was passed
\* through unchanged is not counted
C29_CountsChangedValues ==
    DocFinished => count = Cardinality(Changed)

\* C30: the bare rule "number" is the number generator, like {type: "number"}:
\* for a value that is no sentinel it returns a cached integer of the default
\* range and never the text "number"
C30_BareNumberIsGenerator ==
    (Called /\ last.rule = StrRule(NUMBER) /\ last.value \in NonSentinels)
    => /\ last.ret.kind = "int"
       /\ last.ret.n \in DefaultMin..DefaultMax
       /\ NUMBER \in DOMAIN faker_cache
       /\ HasKey(faker_cache[NUMBER], last.value)
       /\ GetItem(faker_cache[NUMBER], last.value) = last.ret
       /\ last.ret # StrV(NUMBER)

====
